---- MODULE Spec2Model ----
(***************************************************************************)
(* Line aggregation and multi-image merge of the OCR player-power          *)
(* extractor: cleantext.parse_ocr_lines with its helpers parse_power,      *)
(* is_drop_line, clean_name and normalize_name_key, driven by              *)
(* app.process_images_with_ocr.                                            *)
(*                                                                         *)
(* A Python str is modelled as a sequence of one-character strings, so     *)
(* that stripping, splitting, lower-casing and digit extraction are        *)
(* computed character by character as the code computes them.  A           *)
(* DataFrame is modelled as the sequence of its rows.                      *)
(***************************************************************************)
EXTENDS Integers, Sequences, FiniteSets

\* ---------------------------------------------------------------- bounds

\* number of cropped files handed to process_images_with_ocr
MaxImages == 2
\* number of lines the OCR reader returns for one image
MaxLines == 3
\* number of lines the OCR reader returns over all images of one run
MaxTotalLines == 4

\* ------------------------------------------------------------ characters

\* Python's None (for a line of the OCR result, for the power returned by
\* parse_power, and for a disabled STRICT_MIN_POWER): a value outside the
\* naturals, which are the only numbers a power can be.
None == -1

\* characters outside ASCII carry their Unicode name
nbsp == "nbsp"
thinsp == "thinsp"
nnbsp == "nnbsp"
endash == "endash"
emdash == "emdash"

DigitChars == <<"0","1","2","3","4","5","6","7","8","9">>
UpperChars == <<"A","B","C","D","E","F","G","H","I","J","K","L","M","N","O","P","Q","R","S","T","U","V","W","X","Y","Z">>
LowerChars == <<"a","b","c","d","e","f","g","h","i","j","k","l","m","n","o","p","q","r","s","t","u","v","w","x","y","z">>

\* the characters of the model in code point order (str comparison)
CodePoints ==
    <<" ",",","-",".","0","1","2","3","4","5","6","7","8","9",":",";",
      "A","B","C","D","E","F","G","H","I","J","K","L","M","N","O","P","Q","R","S","T","U","V","W","X","Y","Z",
      "_",
      "a","b","c","d","e","f","g","h","i","j","k","l","m","n","o","p","q","r","s","t","u","v","w","x","y","z",
      "|", "nbsp", "thinsp", "endash", "emdash", "nnbsp">>

Range(f) == { f[i] : i \in DOMAIN f }

Digit == Range(DigitChars)
Whitespace == {" ", nbsp, thinsp, nnbsp}

isdigit(c) == c \in Digit
isalpha(c) == c \in Range(UpperChars) \cup Range(LowerChars)
isspace(c) == c \in Whitespace

lower_char(c) ==
    IF c \in Range(UpperChars)
    THEN LowerChars[CHOOSE i \in DOMAIN UpperChars : UpperChars[i] = c]
    ELSE c

ord(c) == CHOOSE i \in DOMAIN CodePoints : CodePoints[i] = c

\* --------------------------------------------------------------- strings

lower(s) == [i \in DOMAIN s |-> lower_char(s[i])]

RECURSIVE lstrip(_)
lstrip(s) == IF s # <<>> /\ isspace(Head(s)) THEN lstrip(Tail(s)) ELSE s

\* re.sub(r"[chars]+$", "", s): drop the longest suffix made of chars
RECURSIVE rstrip_chars(_, _)
rstrip_chars(s, chars) ==
    IF s # <<>> /\ s[Len(s)] \in chars
    THEN rstrip_chars(SubSeq(s, 1, Len(s) - 1), chars)
    ELSE s

strip(s) == rstrip_chars(lstrip(s), Whitespace)

\* w in s
contains(s, w) ==
    \E i \in 1..(Len(s) - Len(w) + 1) : SubSeq(s, i, i + Len(w) - 1) = w

\* sep.join(parts)
RECURSIVE join(_, _)
join(sep, parts) ==
    IF parts = <<>> THEN <<>>
    ELSE IF Len(parts) = 1 THEN parts[1]
    ELSE parts[1] \o sep \o join(sep, Tail(parts))

\* re.split(r"\s+", s) of a stripped s: the maximal runs of non-space
\* characters; the empty string gives the single token ""
RECURSIVE split_acc(_, _, _)
split_acc(s, cur, out) ==
    IF s = <<>> THEN Append(out, cur)
    ELSE IF isspace(Head(s))
         THEN split_acc(lstrip(s), <<>>, Append(out, cur))
         ELSE split_acc(Tail(s), Append(cur, Head(s)), out)

split_ws(s) == split_acc(s, <<>>, <<>>)

\* re.sub(r"\s{2,}", " ", s)
RECURSIVE collapse_spaces(_)
collapse_spaces(s) ==
    IF s = <<>> THEN <<>>
    ELSE IF Len(s) >= 2 /\ isspace(s[1]) /\ isspace(s[2])
         THEN <<" ">> \o collapse_spaces(lstrip(s))
         ELSE <<Head(s)>> \o collapse_spaces(Tail(s))

\* int(digits) of a string of decimal digits
RECURSIVE int_of(_)
int_of(ds) ==
    IF ds = <<>> THEN 0
    ELSE 10 * int_of(SubSeq(ds, 1, Len(ds) - 1))
         + ((CHOOSE i \in DOMAIN DigitChars : DigitChars[i] = ds[Len(ds)]) - 1)

\* a < b for str
RECURSIVE str_less(_, _)
str_less(a, b) ==
    IF b = <<>> THEN FALSE
    ELSE IF a = <<>> THEN TRUE
    ELSE IF Head(a) = Head(b) THEN str_less(Tail(a), Tail(b))
    ELSE ord(Head(a)) < ord(Head(b))

\* ---------------------------------------------------------- cleantext.py

DROP_TOKENS ==
    { <<"n","m">>,
      <<"n","m","-">>,
      <<"m","e","m","b","e","r","s">>,
      <<"m","e","m","b","e","r">>,
      <<"e","l","i","t","e">>,
      <<"o","f","f","i","c","e","r">>,
      <<"p","r","e","s","i","d","e","n","t">>,
      <<"v","i","c","e">>,
      <<"v","i","c","e"," ","p","r","e","s","i","d","e","n","t">>,
      <<"h","a","r","d","c","o","r","e">>,
      <<"c","a","s","u","a","l">>,
      <<"a","c","t","i","v","e">>,
      <<"d","a","i","l","y">>,
      <<"a","c","t","i","v","e"," ","d","a","i","l","y">>,
      <<"a","c","t","i","v","e"," ","a","t"," ","n","i","g","h","t">>,
      <<"o","n","l","i","n","e">>,
      <<"r","a","n","k","i","n","g">>,
      <<"n","o","t","i","c","e">>,
      <<"e","n","t","e","r">>,
      <<"c","l","u","b">>,
      <<"t","a","g">>,
      <<"s","t","a","t","e">> }

MIN_DIGITS == 6

\* the value the source gives STRICT_MIN_POWER
DEFAULT_STRICT_MIN_POWER == 3000000

\* the role phrases is_drop_line looks for anywhere in the line
ROLE_WORDS ==
    { <<"m","e","m","b","e","r">>,
      <<"e","l","i","t","e">>,
      <<"o","f","f","i","c","e","r">>,
      <<"p","r","e","s","i","d","e","n","t">>,
      <<"h","a","r","d","c","o","r","e">>,
      <<"c","a","s","u","a","l">>,
      <<"a","c","t","i","v","e">>,
      <<"o","n","l","i","n","e">>,
      <<"v","i","c","e">> }

is_drop_line(s) ==
    LET s0 == lower(rstrip_chars(strip(s), {":", ";", ",", "-", endash, emdash}))
    IN  IF s0 = <<>> THEN TRUE
        ELSE IF s0 \in DROP_TOKENS THEN TRUE
        ELSE \E w \in ROLE_WORDS : contains(s0, w)

\* parse_power with the digit threshold off by one
parse_power_short(s) ==
    LET s1 == strip(s)
        s2 == SelectSeq(s1, LAMBDA c : c \notin {thinsp, nnbsp})
        s3 == [i \in DOMAIN s2 |->
                 IF s2[i] = nbsp THEN " " ELSE IF s2[i] = "|" THEN "1" ELSE s2[i]]
        digits == SelectSeq(s3, isdigit)
    IN  IF s1 = <<>> THEN [pval |-> None, ok |-> FALSE]
        ELSE IF ~ (/\ s3 # <<>>
                   /\ isdigit(s3[1])
                   /\ \A i \in 2..Len(s3) :
                        isdigit(s3[i]) \/ s3[i] \in {",", "."} \/ isspace(s3[i]))
             THEN [pval |-> None, ok |-> FALSE]
        ELSE IF Len(digits) >= MIN_DIGITS - 1
             THEN [pval |-> int_of(digits), ok |-> TRUE]
        ELSE [pval |-> None, ok |-> FALSE]

\* parse_power reporting a too-short digit run as (value, not ok)
parse_power_malformed(s) ==
    LET s1 == strip(s)
        s2 == SelectSeq(s1, LAMBDA c : c \notin {thinsp, nnbsp})
        s3 == [i \in DOMAIN s2 |->
                 IF s2[i] = nbsp THEN " " ELSE IF s2[i] = "|" THEN "1" ELSE s2[i]]
        digits == SelectSeq(s3, isdigit)
    IN  IF s1 = <<>> THEN [pval |-> None, ok |-> FALSE]
        ELSE IF ~ (/\ s3 # <<>>
                   /\ isdigit(s3[1])
                   /\ \A i \in 2..Len(s3) :
                        isdigit(s3[i]) \/ s3[i] \in {",", "."} \/ isspace(s3[i]))
             THEN [pval |-> None, ok |-> FALSE]
        ELSE IF Len(digits) >= MIN_DIGITS
             THEN [pval |-> int_of(digits), ok |-> TRUE]
        ELSE [pval |-> int_of(digits), ok |-> FALSE]

\* (int_value, ok_bool); (None, False) when s is not a power
parse_power(s) ==
    LET s1 == strip(s)
        s2 == SelectSeq(s1, LAMBDA c : c \notin {thinsp, nnbsp})
        s3 == [i \in DOMAIN s2 |->
                 IF s2[i] = nbsp THEN " " ELSE IF s2[i] = "|" THEN "1" ELSE s2[i]]
        digits == SelectSeq(s3, isdigit)
    IN  IF s1 = <<>> THEN [pval |-> None, ok |-> FALSE]
        ELSE IF ~ (/\ s3 # <<>>
                   /\ isdigit(s3[1])
                   /\ \A i \in 2..Len(s3) :
                        isdigit(s3[i]) \/ s3[i] \in {",", "."} \/ isspace(s3[i]))
             THEN [pval |-> None, ok |-> FALSE]
        ELSE IF Len(digits) >= MIN_DIGITS
             THEN [pval |-> int_of(digits), ok |-> TRUE]
        ELSE [pval |-> None, ok |-> FALSE]

\* the filter of clean_name's loop: TRUE when token t is kept
keep_token(t) ==
    LET letters == Len(SelectSeq(t, isalpha))
    IN  /\ t # <<>>
        /\ lower(t) \notin DROP_TOKENS
        /\ ~ (Len(t) \in 2..4 /\ \A i \in DOMAIN t : isdigit(t[i]))
        /\ ~ (letters = 0 \/ letters * 100 < 35 * Len(t))

clean_name(raw) ==
    LET toks == split_ws(strip(raw))
        out == SelectSeq(toks, keep_token)
        name == join(<<" ">>, out)
        trimmed == rstrip_chars(name, {"-", "_", ".", ";", ":"})
    IN  strip(collapse_spaces(trimmed))

normalize_name_key(name) ==
    rstrip_chars(lower(strip(name)), {"-", "_", ".", ":", ";"} \cup Whitespace)


\* suspect reason f"power<{STRICT_MIN_POWER} ({pval})" / f"malformed_digits({pval})",
\* kept as the format's name and the numbers it prints
reason_below(floor, pval) == [code |-> "power<", floor |-> floor, value |-> pval]
reason_malformed(pval) == [code |-> "malformed_digits", floor |-> None, value |-> pval]

VARIABLES
    STRICT_MIN_POWER,  \* cleantext.STRICT_MIN_POWER: a floor, or None
    nfiles,            \* len(cropped_files)
    i,                 \* number of files of cropped_files already processed
    pc,                \* position: "files", "lines", "returned", "raised", "done"
    results,           \* reader.readtext(...) of the current file
    li,                \* index in results of the next line parse_ocr_lines reads
    cur_name_parts,    \* parse_ocr_lines: the accumulator
    pairs,             \* parse_ocr_lines: (name, power) in emission order
    suspects,          \* parse_ocr_lines: (name, num_text, reason) in emission order
    parsed,            \* the DataFrame parse_ocr_lines returned
    parsed_all,        \* process_images_with_ocr: list of DataFrames
    suspects_all,      \* process_images_with_ocr: list of suspects
    df,                \* the DataFrame process_images_with_ocr returns
    emitted_at,        \* history: the indices of results at which an output appeared
    hist_pairs,        \* history: the pairs of every finished pass, in file order
    hist_suspects,     \* history: the suspects of every finished pass, in file order
    lines_read         \* history: number of lines read over all files

vars == <<STRICT_MIN_POWER, nfiles, i, pc, results, li, cur_name_parts, pairs,
          suspects, parsed, parsed_all, suspects_all, df, emitted_at,
          hist_pairs, hist_suspects, lines_read>>

\* ------------------------------------------------------ the OCR collaborator

NoneLine == [isNone |-> TRUE, text |-> <<>>]
Text(s) == [isNone |-> FALSE, text |-> s]

\* the lines reader.readtext may return
OCR_LINES ==
    { NoneLine,
      Text(<<" ">>),
      Text(<<"F","o","o">>),
      Text(<<"f","o","o">>),
      Text(<<"E","l","i","t","e">>),
      Text(<<"t","a","g",".">>),
      Text(<<"t","a","g"," ","1","7","0">>),
      Text(<<"1","2","3","4","5">>),
      Text(<<"|","2","3","4","5","6">>),
      Text(<<"9","9","9","9","9","9">>),
      Text(<<"3",",","5","0","0",",","0","0","0">>),
      Text(<<"7","0","0","0","0","0","0">>) }

\* ------------------------------------------------- cleantext.parse_ocr_lines

\* the line as the loop body sees it after str(line).strip(); "" for None
stripped(raw) == IF raw.isNone THEN <<>> ELSE strip(raw.text)

NoOutput == [pairs |-> <<>>, suspects |-> <<>>]

\* the power branch without the floor filter
emit_no_floor(name, line, pval, ok) ==
    IF name = <<>> THEN NoOutput
    ELSE IF ok THEN [pairs |-> << <<name, pval>> >>, suspects |-> <<>>]
    ELSE [pairs |-> <<>>, suspects |-> << <<name, line, reason_malformed(pval)>> >>]

\* the power branch without the test for an empty name
emit_any_name(name, line, pval, ok) ==
    IF STRICT_MIN_POWER # None /\ pval < STRICT_MIN_POWER
    THEN [pairs |-> <<>>,
          suspects |-> << <<name, line, reason_below(STRICT_MIN_POWER, pval)>> >>]
    ELSE IF ok THEN [pairs |-> << <<name, pval>> >>, suspects |-> <<>>]
    ELSE [pairs |-> <<>>, suspects |-> << <<name, line, reason_malformed(pval)>> >>]

\* what a power line appends to pairs and to suspects
emit(name, line, pval, ok) ==
    IF name = <<>> THEN NoOutput
    ELSE IF STRICT_MIN_POWER # None /\ pval < STRICT_MIN_POWER
    THEN [pairs |-> <<>>,
          suspects |-> << <<name, line, reason_below(STRICT_MIN_POWER, pval)>> >>]
    ELSE IF ok THEN [pairs |-> << <<name, pval>> >>, suspects |-> <<>>]
    ELSE [pairs |-> <<>>, suspects |-> << <<name, line, reason_malformed(pval)>> >>]

\* the accumulator after a line that is no power, without the drop test
name_parts_keep_all(parts, line) == Append(parts, line)

\* the accumulator after a line that is no power
name_parts_after(parts, line) ==
    IF is_drop_line(line) THEN parts ELSE Append(parts, line)

\* best[k] = (n, p) when k is new or p is greater; best is kept in the
\* insertion order of its keys, as a dict is
best_put(best, n, p) ==
    LET k == normalize_name_key(n)
    IN  IF \E j \in DOMAIN best : best[j].k = k
        THEN LET j == CHOOSE j \in DOMAIN best : best[j].k = k
             IN  IF p > best[j].p THEN [best EXCEPT ![j] = [k |-> k, n |-> n, p |-> p]]
                 ELSE best
        ELSE Append(best, [k |-> k, n |-> n, p |-> p])

RECURSIVE best_of(_)
best_of(prs) ==
    IF prs = <<>> THEN <<>>
    ELSE LET last == prs[Len(prs)]
         IN  best_put(best_of(SubSeq(prs, 1, Len(prs) - 1)), last[1], last[2])

Row(n, p) == [PlayerName |-> n, Power |-> p]

\* rows with row r put before the first row of a smaller Power
RECURSIVE insert_desc(_, _)
insert_desc(rows, r) ==
    IF rows = <<>> THEN <<r>>
    ELSE IF Head(rows).Power < r.Power THEN <<r>> \o rows
    ELSE <<Head(rows)>> \o insert_desc(Tail(rows), r)

\* sort_values("Power", ascending=False): rows of equal Power keep their order
RECURSIVE sort_desc(_)
sort_desc(rows) ==
    IF rows = <<>> THEN <<>>
    ELSE insert_desc(sort_desc(SubSeq(rows, 1, Len(rows) - 1)), rows[Len(rows)])

\* pd.DataFrame(data).sort_values("Power", ...): a DataFrame built from no rows
\* has no column "Power", and sort_values raises KeyError
frame_of(best) ==
    IF best = <<>> THEN [raised |-> TRUE, rows |-> <<>>]
    ELSE [raised |-> FALSE,
          rows |-> sort_desc([j \in DOMAIN best |-> Row(best[j].n, best[j].p)])]

\* ------------------------------------------- app.process_images_with_ocr

\* pd.concat(frames, ignore_index=True)
RECURSIVE concat(_)
concat(frames) ==
    IF frames = <<>> THEN <<>> ELSE Head(frames) \o concat(Tail(frames))

RECURSIVE sorted_names(_)
sorted_names(S) ==
    IF S = {} THEN <<>>
    ELSE LET m == CHOOSE x \in S : \A y \in S \ {x} : str_less(x, y)
         IN  <<m>> \o sorted_names(S \ {m})

max_of(S) == CHOOSE m \in S : \A x \in S : x <= m

\* df.groupby("Player Name", as_index=False)["Power"].max(): one row for each
\* distinct Player Name, in the order of the names
groupby_max(rows) ==
    LET names == sorted_names({ rows[j].PlayerName : j \in DOMAIN rows })
    IN  [g \in DOMAIN names |->
           Row(names[g],
               max_of({ rows[j].Power : j \in { j \in DOMAIN rows : rows[j].PlayerName = names[g] } }))]

combine(frames) ==
    IF frames # <<>> THEN sort_desc(groupby_max(concat(frames))) ELSE <<>>

\* ------------------------------------------------------------------ actions

\* the state when process_images_with_ocr enters its loop over cropped_files,
\* with STRICT_MIN_POWER set to one of floors and len(cropped_files) in counts
InitWith(floors, counts) ==
    /\ STRICT_MIN_POWER \in floors
    /\ nfiles \in counts
    /\ i = 0
    /\ pc = "files"
    /\ results = <<>>
    /\ li = 1
    /\ cur_name_parts = <<>>
    /\ pairs = <<>>
    /\ suspects = <<>>
    /\ parsed = <<>>
    /\ parsed_all = <<>>
    /\ suspects_all = <<>>
    /\ df = <<>>
    /\ emitted_at = <<>>
    /\ hist_pairs = <<>>
    /\ hist_suspects = <<>>
    /\ lines_read = 0

\* the module as written: the floor is 3_000_000; one file or more
Init == InitWith({DEFAULT_STRICT_MIN_POWER}, 1..MaxImages)

\* results = reader.readtext(file_path, ...) and the call of parse_ocr_lines
ReadText ==
    /\ pc = "files"
    /\ i < nfiles
    /\ \E n \in 0..MaxLines :
         /\ lines_read + n <= MaxTotalLines
         /\ \E r \in [1..n -> OCR_LINES] :
              /\ results' = r
              /\ lines_read' = lines_read + n
    /\ li' = 1
    /\ cur_name_parts' = <<>>
    /\ pairs' = <<>>
    /\ suspects' = <<>>
    /\ emitted_at' = <<>>
    /\ pc' = "lines"
    /\ UNCHANGED <<STRICT_MIN_POWER, nfiles, i, parsed, parsed_all, suspects_all,
                   df, hist_pairs, hist_suspects>>

\* one iteration of "for line in lines"
ParseLine ==
    /\ pc = "lines"
    /\ li <= Len(results)
    /\ LET line == stripped(results[li])
           pp == parse_power(line)
           out == emit(clean_name(join(<<" ">>, cur_name_parts)), line, pp.pval, pp.ok)
       IN  IF line = <<>>
           THEN UNCHANGED <<cur_name_parts, pairs, suspects, emitted_at>>
           ELSE IF pp.pval # None
           THEN /\ pairs' = pairs \o out.pairs
                /\ suspects' = suspects \o out.suspects
                /\ cur_name_parts' = <<>>
                /\ emitted_at' = IF out = NoOutput THEN emitted_at
                                 ELSE Append(emitted_at, li)
           ELSE /\ cur_name_parts' = name_parts_after(cur_name_parts, line)
                /\ UNCHANGED <<pairs, suspects, emitted_at>>
    /\ li' = li + 1
    /\ UNCHANGED <<STRICT_MIN_POWER, nfiles, i, pc, results, parsed, parsed_all,
                   suspects_all, df, hist_pairs, hist_suspects, lines_read>>

\* the end of parse_ocr_lines: deduplicate, build the DataFrame, return or raise
ParseEnd ==
    /\ pc = "lines"
    /\ li > Len(results)
    /\ LET frame == frame_of(best_of(pairs))
       IN  /\ pc' = IF frame.raised THEN "raised" ELSE "returned"
           /\ parsed' = frame.rows
    /\ hist_pairs' = hist_pairs \o pairs
    /\ hist_suspects' = hist_suspects \o suspects
    /\ UNCHANGED <<STRICT_MIN_POWER, nfiles, i, results, li, cur_name_parts, pairs,
                   suspects, parsed_all, suspects_all, df, emitted_at, lines_read>>

\* parsed, suspects = cleantext.parse_ocr_lines(results) returned
Collect ==
    /\ pc = "returned"
    /\ parsed_all' = IF parsed # <<>> THEN Append(parsed_all, parsed) ELSE parsed_all
    /\ suspects_all' = suspects_all \o suspects
    /\ i' = i + 1
    /\ pc' = "files"
    /\ UNCHANGED <<STRICT_MIN_POWER, nfiles, results, li, cur_name_parts, pairs,
                   suspects, parsed, df, emitted_at, hist_pairs, hist_suspects,
                   lines_read>>

\* except Exception as e: st.error(...); continue
HandleError ==
    /\ pc = "raised"
    /\ i' = i + 1
    /\ pc' = "files"
    /\ UNCHANGED <<STRICT_MIN_POWER, nfiles, results, li, cur_name_parts, pairs,
                   suspects, parsed, parsed_all, suspects_all, df, emitted_at,
                   hist_pairs, hist_suspects, lines_read>>

\* after the loop: combine all parsed data and return df, suspects_all
Combine ==
    /\ pc = "files"
    /\ i = nfiles
    /\ df' = combine(parsed_all)
    /\ pc' = "done"
    /\ UNCHANGED <<STRICT_MIN_POWER, nfiles, i, results, li, cur_name_parts, pairs,
                   suspects, parsed, parsed_all, suspects_all, emitted_at,
                   hist_pairs, hist_suspects, lines_read>>

Next == ReadText \/ ParseLine \/ ParseEnd \/ Collect \/ HandleError \/ Combine

Spec == Init /\ [][Next]_vars


\* one aggregation pass (a single file), with the knob STRICT_MIN_POWER either
\* at its value or set to None ("set None to disable")
InitOneImage == InitWith({DEFAULT_STRICT_MIN_POWER, None}, {1})

SpecOneImage == InitOneImage /\ [][Next]_vars

\* ------------------------------------------------------------------ claims

InPass == pc \in {"lines", "returned", "raised"}

\* the line of results that ParseLine is about to read
AtLine == pc = "lines" /\ li <= Len(results)

IsPowerLine(raw) == parse_power(stripped(raw)).pval # None

IsFragment(raw) ==
    /\ stripped(raw) # <<>>
    /\ ~ IsPowerLine(raw)
    /\ ~ is_drop_line(stripped(raw))

\* index of the last power line before index j, 0 when there is none
LastPowerBefore(j) ==
    LET S == { k \in 1..(j - 1) : k <= Len(results) /\ IsPowerLine(results[k]) }
    IN  IF S = {} THEN 0 ELSE max_of(S)

\* the lines strictly between the previous power line and index j that are
\* neither null, empty nor drop lines, in input order
FragmentsBefore(j) ==
    LET between == SubSeq(results, LastPowerBefore(j) + 1, j - 1)
        kept == SelectSeq(between, IsFragment)
    IN  [k \in DOMAIN kept |-> stripped(kept[k])]

ExpectedName(j) == clean_name(join(<<" ">>, FragmentsBefore(j)))

\* C1: the merged record set process_images_with_ocr returns holds each
\* normalized name key at most once.
C1_MergedKeysUnique ==
    pc = "done" =>
        \A a, b \in DOMAIN df :
            a # b => normalize_name_key(df[a].PlayerName)
                       # normalize_name_key(df[b].PlayerName)

\* C2: parse_ocr_lines raises no exception, whatever the line sequence: a
\* pass that yields no record still returns normally.
C2_ParseNeverRaises == pc # "raised"

\* C3: the suspect list exposed after all images is the concatenation, in
\* processing order, of the suspects of every image's pass.
C3_SuspectsConcatenated == pc = "done" => suspects_all = hist_suspects

\* C4: at a power line reached with a non-empty cleaned name exactly one
\* output is appended: a "power<" suspect when a floor is configured and the
\* value is below it, else a "malformed_digits" suspect when ok is false, else
\* a record (name, value).
C4_OneOutputByPolicy ==
    [][ LET line == stripped(results[li])
            pp == parse_power(line)
            name == clean_name(join(<<" ">>, cur_name_parts))
        IN  (AtLine /\ line # <<>> /\ pp.pval # None /\ name # <<>>) =>
              IF STRICT_MIN_POWER # None /\ pp.pval < STRICT_MIN_POWER
              THEN /\ pairs' = pairs
                   /\ suspects' = Append(suspects,
                        <<name, line, reason_below(STRICT_MIN_POWER, pp.pval)>>)
              ELSE IF ~ pp.ok
              THEN /\ pairs' = pairs
                   /\ suspects' = Append(suspects, <<name, line, reason_malformed(pp.pval)>>)
              ELSE /\ pairs' = Append(pairs, <<name, pp.pval>>)
                   /\ suspects' = suspects ]_vars

\* a floor suspect was emitted for a value that has MIN_DIGITS digits
C4_Witness ==
    /\ pc = "lines"
    /\ pairs = <<>>
    /\ Len(suspects) = 1
    /\ suspects[1][3].code = "power<"
    /\ Len(SelectSeq(suspects[1][2], isdigit)) >= MIN_DIGITS

\* a line of digits, commas, periods and spaces with fewer than MIN_DIGITS digits
ShortNumeric(raw) ==
    /\ ~ raw.isNone
    /\ \A k \in DOMAIN raw.text : raw.text[k] \in Digit \cup {",", ".", " "}
    /\ Len(SelectSeq(raw.text, isdigit)) < MIN_DIGITS

\* C5: a line of digits, commas, periods and spaces with fewer than
\* MIN_DIGITS digits emits nothing and does not reset the accumulator: it is
\* dropped as a drop line or appended as a name fragment.
C5_ShortNumericNotPower ==
    [][ (AtLine /\ ShortNumeric(results[li])) =>
            LET line == stripped(results[li])
            IN  /\ pairs' = pairs
                /\ suspects' = suspects
                /\ cur_name_parts' =
                     IF line = <<>> \/ is_drop_line(line) THEN cur_name_parts
                     ELSE Append(cur_name_parts, line) ]_vars

\* a line of MIN_DIGITS - 1 digits was read between a fragment and the power
\* line that used the fragment
C5_Witness ==
    /\ pc = "lines"
    /\ li = 4
    /\ ShortNumeric(results[2])
    /\ Len(SelectSeq(results[2].text, isdigit)) = MIN_DIGITS - 1
    /\ emitted_at = <<3>>
    /\ pairs = << <<stripped(results[1]), parse_power(stripped(results[3])).pval>> >>

\* C6: every record emitted by parse_ocr_lines has a non-empty name none of
\* whose tokens is a drop token or a number of 2 to 4 digits.
C6_RecordNamesClean ==
    \A r \in DOMAIN pairs :
        LET toks == split_ws(pairs[r][1])
        IN  /\ pairs[r][1] # <<>>
            /\ \A t \in DOMAIN toks :
                 /\ lower(toks[t]) \notin DROP_TOKENS
                 /\ ~ (Len(toks[t]) \in 2..4
                       /\ \A c \in DOMAIN toks[t] : isdigit(toks[t][c]))

\* C7: a power line reached while the accumulated fragments clean to the empty
\* string emits nothing and empties the accumulator; so no output is ever
\* emitted at a power line that directly follows a power line.
C7_EmptyNameSilent ==
    /\ [][ (AtLine /\ IsPowerLine(results[li])
                   /\ clean_name(join(<<" ">>, cur_name_parts)) = <<>>) =>
              /\ pairs' = pairs
              /\ suspects' = suspects
              /\ cur_name_parts' = <<>> ]_vars
    /\ [](InPass =>
            \A e \in DOMAIN emitted_at :
                emitted_at[e] > 1 => ~ IsPowerLine(results[emitted_at[e] - 1]))

\* a valid power line was read after a fragment made of a drop token and
\* short numeric noise
C7_Witness ==
    /\ pc = "lines"
    /\ li = 3
    /\ results[1] = Text(<<"t","a","g"," ","1","7","0">>)
    /\ results[2] = Text(<<"7","0","0","0","0","0","0">>)
    /\ pairs = <<>>
    /\ suspects = <<>>
    /\ cur_name_parts = <<>>

\* the Power of the rows of a DataFrame whose Player Name has key k
PowersReported(rows, k) ==
    { rows[j].Power : j \in { j \in DOMAIN rows : normalize_name_key(rows[j].PlayerName) = k } }

\* the greatest power among the pairs of key k
MaxEmitted(prs, k) ==
    max_of({ prs[j][2] : j \in { j \in DOMAIN prs : normalize_name_key(prs[j][1]) = k } })

MaxPowerReported(rows, prs) ==
    \A j \in DOMAIN prs :
        LET k == normalize_name_key(prs[j][1])
        IN  PowersReported(rows, k) = { MaxEmitted(prs, k) }

\* C8: for every key under which a pass emitted a record, the power reported
\* for the key by the pass's DataFrame, and by the merged DataFrame, is the
\* greatest power emitted under that key.
C8_MaxPowerPerKey ==
    /\ pc = "returned" => MaxPowerReported(parsed, pairs)
    /\ pc = "done" => MaxPowerReported(df, hist_pairs)

\* the ways of telling which emissions went to pairs: sets of indices of emitted_at
SplitsOfEmissions == SUBSET (DOMAIN emitted_at)

\* the elements of seq at the indices in K, in order
pick(seq, K) ==
    LET f[n \in 0..Len(seq)] ==
            IF n = 0 THEN <<>>
            ELSE IF n \in K THEN Append(f[n - 1], seq[n]) ELSE f[n - 1]
    IN  f[Len(seq)]

\* C9: lines are read in order; every output is emitted at one power line and
\* carries clean_name of the join of the lines between the previous power line
\* and that one that are neither null, empty nor drop lines; the accumulator
\* holds exactly such lines read since the last power line; fragments after
\* the last power line give no output.
C9_OutputsAtPowerLines ==
    /\ [][ AtLine => li' = li + 1 /\ results' = results ]_vars
    /\ [](InPass =>
            /\ li \in 1..(Len(results) + 1)
            /\ cur_name_parts = FragmentsBefore(li)
            /\ \A e \in DOMAIN emitted_at :
                 /\ emitted_at[e] \in 1..(li - 1)
                 /\ IsPowerLine(results[emitted_at[e]])
                 /\ ExpectedName(emitted_at[e]) # <<>>
                 /\ e > 1 => emitted_at[e - 1] < emitted_at[e]
            /\ Len(pairs) + Len(suspects) = Len(emitted_at)
            /\ \E K \in SplitsOfEmissions :
                 LET toPairs == pick(emitted_at, K)
                     toSuspects == pick(emitted_at, DOMAIN emitted_at \ K)
                 IN  /\ [r \in DOMAIN pairs |-> pairs[r][1]]
                          = [x \in DOMAIN toPairs |-> ExpectedName(toPairs[x])]
                     /\ [r \in DOMAIN suspects |-> suspects[r][1]]
                          = [x \in DOMAIN toSuspects |-> ExpectedName(toSuspects[x])])

\* the pass ended with a fragment left after the only power line
C9_Witness ==
    /\ pc = "returned"
    /\ emitted_at = <<2>>
    /\ Len(results) = 3
    /\ cur_name_parts = <<stripped(results[3])>>
    /\ Len(pairs) = 1

\* C10: parse_power returns a value only with ok true and at least MIN_DIGITS
\* digits (a "|" is read as the digit 1); every suspect has the reason "power<floor (value)" with value below
\* the floor, every record has a power of at least the floor, and with no
\* floor there is no suspect.
C10_NoMalformedSuspect ==
    /\ \A j \in DOMAIN results :
         LET pp == parse_power(stripped(results[j]))
         IN  /\ pp.pval # None =>
                  /\ pp.ok
                  /\ Len(SelectSeq(results[j].text, LAMBDA c : isdigit(c) \/ c = "|"))
                       >= MIN_DIGITS
             /\ pp.pval = None => ~ pp.ok
    /\ \A s \in Range(suspects) \cup Range(suspects_all) \cup Range(hist_suspects) :
         /\ s[3].code = "power<"
         /\ STRICT_MIN_POWER # None
         /\ s[3].floor = STRICT_MIN_POWER
         /\ s[3].value < STRICT_MIN_POWER
    /\ \A p \in Range(pairs) \cup Range(hist_pairs) :
         STRICT_MIN_POWER # None => p[2] >= STRICT_MIN_POWER
    /\ STRICT_MIN_POWER = None => suspects = <<>> /\ suspects_all = <<>>

\* with no floor, a pass that read a too-short digit line returned a record
\* below the default floor and no suspect
C10_Witness ==
    /\ pc = "returned"
    /\ STRICT_MIN_POWER = None
    /\ \E j \in DOMAIN results : ShortNumeric(results[j]) /\ stripped(results[j]) # <<>>
    /\ \E r \in DOMAIN pairs : pairs[r][2] < DEFAULT_STRICT_MIN_POWER
    /\ suspects = <<>>

====
